---- MODULE Spec2Model ----
(***************************************************************************)
(* State-machine model of the Shiki highlighter caches of                  *)
(* @expressive-code/plugin-shiki (highlighter.ts) and of the document      *)
(* transformer of remark-expressive-code.                                  *)
(*                                                                         *)
(* JavaScript runs one job at a time: every action below is the code that  *)
(* runs between two suspension points (an await, or the settling of a      *)
(* promise by the engine), so the interleavings of the actions are the     *)
(* interleavings the event loop can produce.                               *)
(***************************************************************************)
EXTENDS FiniteSets, Integers, Sequences, TLC

(***************************************************************************)
(* Bounds of the model.                                                    *)
(***************************************************************************)
MaxHighlighterCalls == 3
MaxThemeCalls == 3
MaxThemeEdits == 1
MaxLanguageCalls == 3
MaxDocs == 2
MaxCalls == 4
MaxTabWidth == 2
MaxCodeLen == 3

(***************************************************************************)
(* Inputs.                                                                 *)
(***************************************************************************)
\* Configuration objects passed to getCachedHighlighter. Objects 1 and 2 are
\* distinct objects with equal content; object 3 asks for a custom language.
Configs ==
    { [id |-> 1, langs |-> <<>>],
      [id |-> 2, langs |-> <<>>],
      [id |-> 3, langs |-> <<"custom">>] }

\* The theme objects (identities) and the values their fields can take.
ThemeObjs == {1, 2}
ThemeNames == {"dark"}
BgColors == {"#000", "#fff"}
FgColors == {"#eee"}
SettingsValues == {"rules"}
DefaultTheme == [name |-> "dark", bg |-> "#000", fg |-> "#eee", settings |-> "rules"]
ThemeValues == [name : ThemeNames, bg : BgColors, fg : FgColors, settings : SettingsValues]

\* Shiki's registries: the keys of bundledLanguages, the lazily embedded
\* languages of the composite ones, and the names isSpecialLang accepts.
BundledLanguages == {"md", "mdx", "js"}
EmbeddedLangsLazy(language) ==
    IF language \in {"md", "mdx"} THEN {"js"} ELSE {}
IsSpecialLang(language) == language \in {"plaintext", "txt", "text", "plain", "ansi"}

\* The language names requested of ensureLanguageIsLoaded.
LanguageNames == {"md", "mdx", "js", "ansi", "foo"}

Instances == 1..MaxHighlighterCalls
NoKey == ""

VARIABLES
    highlighterPromiseByConfig, \* fingerprint -> index of highlighterPromises, 0 = undefined
    highlighterPromises,        \* the promises getHighlighter returned, one per construction
    highlighterCalls,           \* the getCachedHighlighter calls made, with the promise returned
    promisesByHighlighter,      \* the task maps: records (highlighter, taskId, promise)
    taskPromises,               \* the promises taskFn returned, one per taskFn invocation
    themes,                     \* theme object -> its current fields
    themeEdits,                 \* number of edits of theme objects so far
    themeCacheKeys,             \* theme object -> remembered cache key, NoKey = none
    loadedThemes,               \* instance -> theme registrations the engine has loaded
    loadThemeCalls,             \* the engine's loadTheme invocations
    themeCalls,                 \* the ensureThemeIsLoaded calls made
    loadedLanguages,            \* instance -> names the engine reports as loaded
    loadLanguageCalls,          \* the engine's loadLanguage invocations
    languageCalls,              \* the ensureLanguageIsLoaded calls made
    options,                    \* the options the transform was created with
    asyncRenderer,              \* index of rendererPromises, 0 = undefined
    rendererPromises,           \* what the renderer factory returned, one per return
    factoryCalls,               \* the invocations of the renderer factory
    docs,                       \* the transformer calls made, one per document
    codeValue,                  \* the value of a code node, a sequence of characters
    normalizedCode              \* <<the code made of it for the block's input>>, <<>> = not yet

cacheVars == <<highlighterPromiseByConfig, highlighterPromises, highlighterCalls>>
memoVars == <<promisesByHighlighter, taskPromises>>
themeVars == <<themes, themeEdits, themeCacheKeys, loadedThemes, loadThemeCalls, themeCalls>>
languageVars == <<loadedLanguages, loadLanguageCalls, languageCalls>>
normalizeVars == <<codeValue, normalizedCode>>
docVars == <<options, asyncRenderer, rendererPromises, factoryCalls, docs, normalizeVars>>
vars == <<cacheVars, memoVars, themeVars, languageVars, docVars>>

(***************************************************************************)
(* Content fingerprinting (getStableObjectHash of @expressive-code/core).  *)
(***************************************************************************)
RECURSIVE Join(_)
Join(names) ==
    IF names = <<>> THEN "" ELSE Head(names) \o ";" \o Join(Tail(names))

\* The fingerprint of a configuration: a function of its content, not of the
\* object's identity.
ConfigHash(config) == "{langs:[" \o Join(config.langs) \o "]}"

\* The fingerprint of { bg, fg, settings }.
ThemeContentHash(bg, fg, settings) ==
    "{bg:" \o bg \o ",fg:" \o fg \o ",settings:" \o settings \o "}"

Fingerprints == { ConfigHash(c) : c \in Configs }

(***************************************************************************)
(* Engine Instance Cache: getCachedHighlighter.                            *)
(***************************************************************************)
\* The langs handed to getHighlighter: the custom languages, and with them
\* every bundled language.
RECURSIVE SeqToSet(_)
SeqToSet(s) == IF s = <<>> THEN {} ELSE {Head(s)} \cup SeqToSet(Tail(s))

HighlighterLangs(config) ==
    IF Len(config.langs) > 0
    THEN SeqToSet(config.langs) \cup BundledLanguages
    ELSE {}

\* A mutated getCachedHighlighter that constructs without looking the
\* fingerprint up first.
GetCachedHighlighterNoLookup(config) ==
    LET configCacheKey == ConfigHash(config)
        created == Len(highlighterPromises) + 1
    IN  /\ Len(highlighterCalls) < MaxHighlighterCalls
        /\ highlighterPromises' = Append(highlighterPromises,
               [state |-> "pending", fingerprint |-> configCacheKey,
                        langs |-> HighlighterLangs(config)])
        /\ highlighterPromiseByConfig' =
               [highlighterPromiseByConfig EXCEPT ![configCacheKey] = created]
        /\ highlighterCalls' = Append(highlighterCalls,
               [config |-> config, promise |-> created])
        /\ UNCHANGED <<docVars, memoVars, themeVars, languageVars>>

\* A mutated lookup that does not find the promise of a failed construction.
CachedHighlighterPromiseUnlessRejected(configCacheKey) ==
    IF highlighterPromiseByConfig[configCacheKey] # 0
           /\ highlighterPromises[highlighterPromiseByConfig[configCacheKey]].state = "rejected"
    THEN 0
    ELSE highlighterPromiseByConfig[configCacheKey]

\* highlighterPromiseByConfig.get(configCacheKey), 0 = undefined.
CachedHighlighterPromise(configCacheKey) == highlighterPromiseByConfig[configCacheKey]

\* getCachedHighlighter(config): runs without suspension up to its return.
GetCachedHighlighter(config) ==
    LET configCacheKey == ConfigHash(config)
        existing == CachedHighlighterPromise(configCacheKey)
        created == Len(highlighterPromises) + 1
    IN  /\ Len(highlighterCalls) < MaxHighlighterCalls
        /\ IF existing = 0
           THEN /\ highlighterPromises' = Append(highlighterPromises,
                       [state |-> "pending", fingerprint |-> configCacheKey,
                        langs |-> HighlighterLangs(config)])
                /\ highlighterPromiseByConfig' =
                       [highlighterPromiseByConfig EXCEPT ![configCacheKey] = created]
                /\ highlighterCalls' = Append(highlighterCalls,
                       [config |-> config, promise |-> created])
           ELSE /\ UNCHANGED <<highlighterPromises, highlighterPromiseByConfig>>
                /\ highlighterCalls' = Append(highlighterCalls,
                       [config |-> config, promise |-> existing])
        /\ UNCHANGED <<docVars, memoVars, themeVars, languageVars>>

\* The engine settles a construction: getHighlighter's promise fulfils with
\* the new instance (which reports the preloaded languages) or rejects.
GetHighlighterSettle(p, ok) ==
    /\ p \in 1..Len(highlighterPromises)
    /\ highlighterPromises[p].state = "pending"
    /\ highlighterPromises' =
           [highlighterPromises EXCEPT ![p].state = IF ok THEN "fulfilled" ELSE "rejected"]
    /\ loadedLanguages' =
           [loadedLanguages EXCEPT ![p] = IF ok THEN highlighterPromises[p].langs ELSE @]
    /\ UNCHANGED <<docVars, highlighterPromiseByConfig, highlighterCalls, memoVars, themeVars,
                   loadLanguageCalls, languageCalls>>

\* The engine instances that exist: instance p is the value of promise p.
Highlighters ==
    { p \in 1..Len(highlighterPromises) : highlighterPromises[p].state = "fulfilled" }

(***************************************************************************)
(* Per-Instance Task Memoizer: memoizeHighlighterTask.                     *)
(***************************************************************************)
\* A mutated lookup that never finds a recorded promise.
StoredPromiseNone(highlighter, taskId) == 0

\* promisesByHighlighter.get(highlighter)?.get(taskId), 0 = undefined.
StoredPromise(highlighter, taskId) ==
    IF \E e \in promisesByHighlighter : e.highlighter = highlighter /\ e.taskId = taskId
    THEN (CHOOSE e \in promisesByHighlighter :
              e.highlighter = highlighter /\ e.taskId = taskId).promise
    ELSE 0

\* A mutated memoizeHighlighterTask that keeps a recorded promise only while
\* it is pending, and replaces a settled one by the promise of a new run.
MemoizeHighlighterTaskReplacesSettled(highlighter, taskId, task) ==
    IF StoredPromise(highlighter, taskId) # 0
           /\ taskPromises[StoredPromise(highlighter, taskId)].state = "pending"
    THEN UNCHANGED <<promisesByHighlighter, taskPromises>>
    ELSE /\ taskPromises' = Append(taskPromises, task)
         /\ promisesByHighlighter' =
                { e \in promisesByHighlighter :
                      ~(e.highlighter = highlighter /\ e.taskId = taskId) } \cup
                { [highlighter |-> highlighter, taskId |-> taskId,
                   promise |-> Len(taskPromises) + 1] }

\* memoizeHighlighterTask(highlighter, taskId, taskFn), where task is the
\* promise taskFn returns when it is invoked: the recorded promise is kept,
\* or taskFn is invoked and its promise recorded under taskId.
MemoizeHighlighterTask(highlighter, taskId, task) ==
    IF StoredPromise(highlighter, taskId) # 0
    THEN UNCHANGED <<promisesByHighlighter, taskPromises>>
    ELSE /\ taskPromises' = Append(taskPromises, task)
         /\ promisesByHighlighter' = promisesByHighlighter \cup
                { [highlighter |-> highlighter, taskId |-> taskId,
                   promise |-> Len(taskPromises) + 1] }

\* The promise memoizeHighlighterTask returns.
MemoizedPromise(highlighter, taskId) ==
    IF StoredPromise(highlighter, taskId) # 0
    THEN StoredPromise(highlighter, taskId)
    ELSE Len(taskPromises) + 1

\* The record of a promise returned by taskFn: the task it belongs to, its
\* settlement, and where the task function is suspended.
Task(highlighter, taskId, language, state, value, pc, loadedAtStart) ==
    [highlighter |-> highlighter, taskId |-> taskId, language |-> language,
     state |-> state, value |-> value, pc |-> pc, loadedLanguages |-> loadedAtStart]

Settled(p) == taskPromises[p].state # "pending"

(***************************************************************************)
(* Theme Loader: ensureThemeIsLoaded.                                      *)
(***************************************************************************)
\* `${theme.name}-${getStableObjectHash({ bg, fg, settings })}`
ThemeCacheKey(theme) ==
    theme.name \o "-" \o ThemeContentHash(theme.bg, theme.fg, theme.settings)

\* highlighter.getLoadedThemes()
GetLoadedThemes(highlighter) == { reg.name : reg \in loadedThemes[highlighter] }

ThemeUsingCacheKeyKeepsName(theme, cacheKey) == theme

\* { ...theme, name: cacheKey, settings: theme.settings ?? [] }: the theme as
\* it is handed to highlighter.loadTheme.
ThemeUsingCacheKey(theme, cacheKey) == [theme EXCEPT !.name = cacheKey]

\* ensureThemeIsLoaded(highlighter, theme) up to its await (or, when the
\* theme is reported as loaded, up to its return).
EnsureThemeIsLoaded(highlighter, t) ==
    LET theme == themes[t]
        existingCacheKey == themeCacheKeys[t]
        cacheKey == IF existingCacheKey # NoKey THEN existingCacheKey ELSE ThemeCacheKey(theme)
        taskId == "loadTheme:" \o cacheKey
        isLoaded == cacheKey \in GetLoadedThemes(highlighter)
        starts == ~isLoaded /\ StoredPromise(highlighter, taskId) = 0
        themeUsingCacheKey == ThemeUsingCacheKey(theme, cacheKey)
    IN  /\ Len(themeCalls) < MaxThemeCalls
        /\ highlighter \in Highlighters
        /\ themeCacheKeys' = [themeCacheKeys EXCEPT ![t] = cacheKey]
        /\ IF isLoaded
           THEN UNCHANGED <<promisesByHighlighter, taskPromises>>
           ELSE MemoizeHighlighterTask(highlighter, taskId,
                    Task(highlighter, taskId, "", "pending", "", "load", {}))
        /\ loadThemeCalls' =
               IF starts
               THEN Append(loadThemeCalls,
                        [highlighter |-> highlighter, theme |-> themeUsingCacheKey,
                         promise |-> Len(taskPromises) + 1])
               ELSE loadThemeCalls
        /\ themeCalls' = Append(themeCalls,
               [highlighter |-> highlighter, object |-> t, theme |-> theme,
                cacheKey |-> cacheKey,
                promise |-> IF isLoaded THEN 0 ELSE MemoizedPromise(highlighter, taskId)])
        /\ UNCHANGED <<docVars, cacheVars, themes, themeEdits, loadedThemes, languageVars>>

\* The engine settles a loadTheme call: the theme is registered under the
\* name it was given and the promise fulfils, or the promise rejects.
LoadThemeSettle(c, ok) ==
    /\ c \in 1..Len(loadThemeCalls)
    /\ ~Settled(loadThemeCalls[c].promise)
    /\ taskPromises' = [taskPromises EXCEPT
           ![loadThemeCalls[c].promise].state = IF ok THEN "fulfilled" ELSE "rejected",
           ![loadThemeCalls[c].promise].pc = "done"]
    /\ loadedThemes' = [loadedThemes EXCEPT ![loadThemeCalls[c].highlighter] =
           IF ok THEN @ \cup {loadThemeCalls[c].theme} ELSE @]
    /\ UNCHANGED <<docVars, cacheVars, promisesByHighlighter, themes, themeEdits, themeCacheKeys,
                   loadThemeCalls, themeCalls, languageVars>>

\* Where an ensureThemeIsLoaded call stands. After its await the function
\* only returns the cache key it computed before: it returns once the awaited
\* promise has fulfilled, and rejects once that promise has rejected.
ThemeCallState(call) ==
    IF call.promise = 0 THEN "returned"
    ELSE IF taskPromises[call.promise].state = "fulfilled" THEN "returned"
    ELSE IF taskPromises[call.promise].state = "rejected" THEN "rejected"
    ELSE "await"

\* The host edits the background color of a theme object.
EditTheme(t, bg) ==
    /\ themeEdits < MaxThemeEdits
    /\ bg # themes[t].bg
    /\ themes' = [themes EXCEPT ![t].bg = bg]
    /\ themeEdits' = themeEdits + 1
    /\ UNCHANGED <<docVars, cacheVars, memoVars, themeCacheKeys, loadedThemes, loadThemeCalls,
                   themeCalls, languageVars>>

(***************************************************************************)
(* Language Loader: ensureLanguageIsLoaded.                                *)
(***************************************************************************)
IsComposite(language) == language \in {"md", "markdown", "mdx"}

\* A mutated collection of the languages to load that leaves the lazily
\* embedded languages out.
LangsToLoadSelfOnly(language, loadedAtStart) ==
    IF language \notin loadedAtStart /\ ~IsSpecialLang(language) THEN {language} ELSE {}

\* The languages the task function hands to highlighter.loadLanguage, from
\* the loaded languages it read when it started.
LangsToLoad(language, loadedAtStart) ==
    (IF IsComposite(language) THEN EmbeddedLangsLazy(language) \ loadedAtStart ELSE {})
    \cup (IF language \notin loadedAtStart /\ ~IsSpecialLang(language) THEN {language} ELSE {})

\* The task function from its start, or from its resumption after the import
\* of the composite language's definition, to its end or its next await.
LanguageTaskRun(highlighter, taskId, language, loadedAtStart) ==
    LET isLoaded == language \in loadedAtStart
        isAvailable == isLoaded \/ IsSpecialLang(language) \/ language \in BundledLanguages
    IN  IF ~isAvailable
        THEN Task(highlighter, taskId, language, "fulfilled", "txt", "done", loadedAtStart)
        ELSE IF LangsToLoad(language, loadedAtStart) # {}
        THEN Task(highlighter, taskId, language, "pending", "", "load", loadedAtStart)
        ELSE Task(highlighter, taskId, language, "fulfilled", language, "done", loadedAtStart)

\* A mutated task function without the fallback: it takes every name for
\* a bundled language.
LanguageTaskStartNoFallback(highlighter, taskId, language) ==
    LET loadedAtStart == loadedLanguages[highlighter]
    IN  IF IsComposite(language)
        THEN Task(highlighter, taskId, language, "pending", "", "import", loadedAtStart)
        ELSE IF LangsToLoad(language, loadedAtStart) # {}
        THEN Task(highlighter, taskId, language, "pending", "", "load", loadedAtStart)
        ELSE Task(highlighter, taskId, language, "fulfilled", language, "done", loadedAtStart)

\* The task function from its start to its first await.
LanguageTaskStart(highlighter, taskId, language) ==
    LET loadedAtStart == loadedLanguages[highlighter]
        isAvailable == language \in loadedAtStart \/ IsSpecialLang(language)
                           \/ language \in BundledLanguages
    IN  IF isAvailable /\ IsComposite(language)
        THEN Task(highlighter, taskId, language, "pending", "", "import", loadedAtStart)
        ELSE LanguageTaskRun(highlighter, taskId, language, loadedAtStart)

\* ensureLanguageIsLoaded(highlighter, language) up to its await.
EnsureLanguageIsLoaded(highlighter, language) ==
    LET taskId == "loadLanguage:" \o language
        starts == StoredPromise(highlighter, taskId) = 0
        task == LanguageTaskStart(highlighter, taskId, language)
    IN  /\ Len(languageCalls) < MaxLanguageCalls
        /\ highlighter \in Highlighters
        /\ MemoizeHighlighterTask(highlighter, taskId, task)
        /\ loadLanguageCalls' =
               IF starts /\ task.pc = "load"
               THEN Append(loadLanguageCalls,
                        [highlighter |-> highlighter,
                         langs |-> LangsToLoad(language, task.loadedLanguages),
                         promise |-> Len(taskPromises) + 1])
               ELSE loadLanguageCalls
        /\ languageCalls' = Append(languageCalls,
               [highlighter |-> highlighter, language |-> language,
                promise |-> MemoizedPromise(highlighter, taskId)])
        /\ UNCHANGED <<docVars, cacheVars, themeVars, loadedLanguages>>

\* The import of a composite language's definition resolves and its task
\* function runs on, with the loaded languages it read before the import.
LanguageTaskImported(p) ==
    LET task == taskPromises[p]
        next == LanguageTaskRun(task.highlighter, task.taskId, task.language,
                                task.loadedLanguages)
    IN  /\ p \in 1..Len(taskPromises)
        /\ task.pc = "import"
        /\ taskPromises' = [taskPromises EXCEPT ![p] = next]
        /\ loadLanguageCalls' =
               IF next.pc = "load"
               THEN Append(loadLanguageCalls,
                        [highlighter |-> task.highlighter,
                         langs |-> LangsToLoad(task.language, task.loadedLanguages),
                         promise |-> p])
               ELSE loadLanguageCalls
        /\ UNCHANGED <<docVars, cacheVars, promisesByHighlighter, themeVars, loadedLanguages,
                       languageCalls>>

\* The engine settles a loadLanguage call: the languages are loaded and the
\* task function returns the requested name, or the task rejects.
LoadLanguageSettle(c, ok) ==
    LET call == loadLanguageCalls[c]
    IN  /\ c \in 1..Len(loadLanguageCalls)
        /\ taskPromises[call.promise].pc = "load"
        /\ taskPromises' = [taskPromises EXCEPT
               ![call.promise].state = IF ok THEN "fulfilled" ELSE "rejected",
               ![call.promise].value = IF ok THEN taskPromises[call.promise].language ELSE "",
               ![call.promise].pc = "done"]
        /\ loadedLanguages' = [loadedLanguages EXCEPT ![call.highlighter] =
               IF ok THEN @ \cup call.langs ELSE @]
        /\ UNCHANGED <<docVars, cacheVars, promisesByHighlighter, themeVars, loadLanguageCalls,
                       languageCalls>>

\* Where an ensureLanguageIsLoaded call stands, and the name it returns: after
\* its await the function only returns the value of the awaited promise.
LanguageCallState(call) ==
    IF taskPromises[call.promise].state = "fulfilled" THEN "returned"
    ELSE IF taskPromises[call.promise].state = "rejected" THEN "rejected"
    ELSE "await"

LoadedLanguage(call) == taskPromises[call.promise].value

(***************************************************************************)
(* Document trees.                                                         *)
(***************************************************************************)
\* A node of a document tree: its identity, its type and its children.
Node(id, type, children) == [id |-> id, type |-> type, children |-> children]

\* The documents handed to the transformer, each the child list of its root:
\* two without a code node, one with two top-level code nodes around a
\* paragraph, one with a top-level code node and one nested in a blockquote.
TreeParagraph == << Node(1, "paragraph", <<>>) >>
TreeQuote == << Node(1, "blockquote", << Node(2, "paragraph", <<>>) >>) >>
TreeFlat == << Node(1, "code", <<>>), Node(2, "paragraph", <<>>), Node(3, "code", <<>>) >>
TreeNested ==
    << Node(1, "blockquote", << Node(2, "paragraph", <<>>), Node(3, "code", <<>>) >>),
       Node(4, "code", <<>>) >>
Trees == {TreeParagraph, TreeQuote, TreeFlat, TreeNested}

\* The identity of the root node, the parent of the top-level nodes.
RootId == 0

\* visit(tree, 'code', ...): the [parent, code] pairs of the code nodes of a
\* child list, in document order (a node before its children, a child list
\* from first to last).
RECURSIVE VisitCode(_, _)
VisitCode(parent, children) ==
    IF children = <<>> THEN <<>>
    ELSE LET node == Head(children)
         IN  (IF node.type = "code"
              THEN << [parent |-> parent, code |-> node.id] >>
              ELSE <<>>)
             \o VisitCode(node.id, node.children)
             \o VisitCode(parent, Tail(children))

\* children.indexOf(code): the 1-based place of the node in a child list, 0
\* when it is not in it.
RECURSIVE IndexOf(_, _)
IndexOf(children, id) ==
    IF children = <<>> THEN 0
    ELSE IF Head(children).id = id THEN 1
    ELSE IF IndexOf(Tail(children), id) = 0 THEN 0
    ELSE 1 + IndexOf(Tail(children), id)

\* A mutated splice that removes the child at the place and appends the html
\* node to the child list.
SpliceAtEnd(children, index, html) ==
    LET at == IF index = 0 THEN Len(children) ELSE index
    IN  [k \in 1..Len(children) |->
            IF k < at THEN children[k]
            ELSE IF k < Len(children) THEN children[k + 1]
            ELSE html]

\* children.splice(index, 1, html) for the place indexOf gave: a place that
\* was not found (-1) counts from the end and names the last child.
Splice(children, index, html) ==
    LET at == IF index = 0 THEN Len(children) ELSE index
    IN  [k \in 1..Len(children) |-> IF k = at THEN html ELSE children[k]]

\* parent.children.splice(parent.children.indexOf(code), 1, html) in the
\* child list of the node `parent` of a tree.
RECURSIVE ReplaceCode(_, _, _, _)
ReplaceCode(children, self, parent, code) ==
    IF self = parent
    THEN IF children = <<>> THEN << Node(code, "html", <<>>) >>
         ELSE Splice(children, IndexOf(children, code), Node(code, "html", <<>>))
    ELSE [k \in 1..Len(children) |->
             [children[k] EXCEPT !.children =
                 ReplaceCode(children[k].children, children[k].id, parent, code)]]

(***************************************************************************)
(* Document Rendering Pipeline: the transformer of remarkExpressiveCode.   *)
(***************************************************************************)
\* The option sets: which of the hooks are given, and tabWidth as <<w>>, or
\* <<>> when it is not given.
OptionSets ==
    [getBlockLocale : BOOLEAN, customCreateBlock : BOOLEAN, customCreateRenderer : BOOLEAN,
     tabWidth : {<<>>} \cup { <<w>> : w \in 0..MaxTabWidth }]

\* What an invocation of the renderer factory can do: createRenderer is an
\* async function and always returns a promise; customCreateRenderer returns
\* a promise or a renderer, or throws.
FactoryOutcomes(opts) ==
    IF opts.customCreateRenderer THEN {"promise", "renderer", "throw"} ELSE {"promise"}

\* The renderers a factory can produce: one with base styles, theme styles
\* and script modules, one of them listed twice; one without base styles and
\* without modules.
RendererResults ==
    { [baseStyles |-> "base{}", themeStyles |-> "theme{}", jsModules |-> <<"m1", "m2", "m1">>],
      [baseStyles |-> "", themeStyles |-> "theme{}", jsModules |-> <<>>] }

\* The value of a promise that has not fulfilled.
NoRenderer == [baseStyles |-> "", themeStyles |-> "", jsModules |-> <<>>]

\* The styles ec.render returns for the block of a code node: the first
\* block of every document has a style that its second block has again, and
\* the second has one of its own.
RenderStyles(code) ==
    IF code = 1 THEN <<"g1{}">>
    ELSE IF code = 3 THEN <<"g1{}", "g2{}">>
    ELSE <<"g2{}", "g3{}">>

NoHooks ==
    [getBlockLocale |-> FALSE, customCreateBlock |-> FALSE, customCreateRenderer |-> FALSE,
     tabWidth |-> <<>>]

(***************************************************************************)
(* Tab normalization of a code node's value.                               *)
(***************************************************************************)
DefaultTabWidth == 2

\* const { tabWidth = 2 } = options
TabWidth == IF options.tabWidth = <<>> THEN DefaultTabWidth ELSE options.tabWidth[1]

\* The characters of a code value and the values of a code node.
Chars == {"a", " ", "\t"}
CodeValues == UNION { [1..n -> Chars] : n \in 0..MaxCodeLen }

\* str.repeat(count)
RECURSIVE Repeat(_, _)
Repeat(str, count) == IF count = 0 THEN <<>> ELSE str \o Repeat(str, count - 1)

\* A mutated replacement without the g flag: only the first tab is replaced.
RECURSIVE ReplaceTabsFirstOnly(_, _)
ReplaceTabsFirstOnly(value, replacement) ==
    IF value = <<>> THEN <<>>
    ELSE IF Head(value) = "\t" THEN replacement \o Tail(value)
    ELSE <<Head(value)>> \o ReplaceTabsFirstOnly(Tail(value), replacement)

\* value.replace(/\t/g, replacement)
RECURSIVE ReplaceTabs(_, _)
ReplaceTabs(value, replacement) ==
    IF value = <<>> THEN <<>>
    ELSE (IF Head(value) = "\t" THEN replacement ELSE <<Head(value)>>)
             \o ReplaceTabs(Tail(value), replacement)

\* let normalizedCode = code.value
\* if (tabWidth > 0) normalizedCode = normalizedCode.replace(/\t/g, ' '.repeat(tabWidth))
NormalizedCode(value) ==
    IF TabWidth > 0 THEN ReplaceTabs(value, Repeat(<<" ">>, TabWidth)) ELSE value

\* The loop body normalizes the value of a code node for the block's input.
NormalizeCode ==
    /\ normalizedCode = <<>>
    /\ normalizedCode' = << NormalizedCode(codeValue) >>
    /\ UNCHANGED <<cacheVars, memoVars, themeVars, languageVars, options, asyncRenderer,
                   rendererPromises, factoryCalls, docs, codeValue>>

(***************************************************************************)
(* renderBlockToHtml: the html of a block and the Render Asset Set.        *)
(***************************************************************************)
\* An element of the rendered group: its tag name and its text parts.
Element(tagName, text) == [tagName |-> tagName, text |-> text]

\* A mutated filter that does not consult the set of what was added.
FirstOccurrencesForgetful(items, added) == items

\* The items of a list that are pushed by a loop of
\*     if (added.has(item)) continue; added.add(item); push(item)
RECURSIVE FirstOccurrences(_, _)
FirstOccurrences(items, added) ==
    IF items = <<>> THEN <<>>
    ELSE IF Head(items) \in added THEN FirstOccurrences(Tail(items), added)
    ELSE <<Head(items)>> \o FirstOccurrences(Tail(items), added \cup {Head(items)})

\* renderBlockToHtml after ec.render has fulfilled: the base styles and the
\* theme styles (when not empty) and the group's styles go through the same
\* has/add/push in this order, and so do the script modules; the new
\* elements are put before the rendered group and the group is serialized.
RenderBlockToHtml(renderer, code, addedStyles, addedJsModules) ==
    LET styles == RenderStyles(code)
        shared == (IF renderer.baseStyles # "" THEN <<renderer.baseStyles>> ELSE <<>>)
                      \o (IF renderer.themeStyles # "" THEN <<renderer.themeStyles>> ELSE <<>>)
        stylesToPrepend == FirstOccurrences(shared \o styles, addedStyles)
        modules == FirstOccurrences(renderer.jsModules, addedJsModules)
        extraElements ==
            (IF Len(stylesToPrepend) > 0 THEN << Element("style", stylesToPrepend) >> ELSE <<>>)
                \o [m \in 1..Len(modules) |-> Element("script", << modules[m] >>)]
    IN  [html |-> [code |-> code, children |-> extraElements \o << Element("figure", <<>>) >>],
         addedStyles |-> addedStyles \cup SeqToSet(stylesToPrepend),
         addedJsModules |-> addedJsModules \cup SeqToSet(modules)]

(***************************************************************************)
(* The transformer.                                                        *)
(***************************************************************************)
InitTransform ==
    /\ options \in OptionSets
    /\ asyncRenderer = 0
    /\ rendererPromises = <<>>
    /\ factoryCalls = <<>>
    /\ docs = <<>>
    /\ codeValue \in CodeValues
    /\ normalizedCode = <<>>

\* A step of a transformer call as the document's log records it: what is
\* called (or "throw" for a failure that leaves the call), and the
\* positionInDocument of the block it is for.
Event(op, groupIndex, totalGroups) ==
    [op |-> op, groupIndex |-> groupIndex, totalGroups |-> totalGroups]

\* A transformer call: the tree as it was handed in and as it is now, the
\* collected [parent, code] pairs, the renderer promise awaited, the loop
\* counter, the asset sets, the html values made so far, the log of the
\* steps, and where the call stands.
Document(tree, nodesToProcess, renderer, pc) ==
    [input |-> tree, tree |-> tree, nodesToProcess |-> nodesToProcess,
     renderer |-> renderer, groupIndex |-> 0, pc |-> pc,
     addedStyles |-> {}, addedJsModules |-> {}, html |-> <<>>,
     log |-> IF pc = "rejected"
             THEN << Event("throw", 0, Len(nodesToProcess)) >>
             ELSE <<>>]

\* A mutated first await that leaves the getBlockLocale hook out.
FirstAwaitOfBlockSkipsLocale ==
    IF options.customCreateBlock THEN "customCreateBlock" ELSE "render"

\* The first await of the loop body for a block: getBlockLocale if given,
\* else customCreateBlock if given, else ec.render in renderBlockToHtml.
FirstAwaitOfBlock ==
    IF options.getBlockLocale THEN "getBlockLocale"
    ELSE IF options.customCreateBlock THEN "customCreateBlock"
    ELSE "render"

\* The call runs up to the await of a step of the current block: the step
\* is called; before ec.render the block is constructed here unless
\* customCreateBlock made it.
Await(doc, step) ==
    LET totalGroups == Len(doc.nodesToProcess)
    IN  [doc EXCEPT
            !.pc = step,
            !.log = @ \o (IF step = "render" /\ ~options.customCreateBlock
                          THEN << Event("ExpressiveCodeBlock", doc.groupIndex, totalGroups) >>
                          ELSE <<>>)
                      \o << Event(step, doc.groupIndex, totalGroups) >>]

\* A mutated failure that is swallowed: the loop goes on with the next block.
ThrowSkipsBlock(doc) ==
    IF doc.groupIndex + 1 >= Len(doc.nodesToProcess)
    THEN [doc EXCEPT !.pc = "done",
                     !.log = Append(@, Event("throw", doc.groupIndex,
                                             Len(doc.nodesToProcess)))]
    ELSE Await([doc EXCEPT !.groupIndex = @ + 1,
                           !.log = Append(@, Event("throw", doc.groupIndex,
                                                   Len(doc.nodesToProcess)))],
               FirstAwaitOfBlock)

\* A mutated failure that restores the tree before it leaves the call.
ThrowRollsBack(doc) ==
    [doc EXCEPT !.pc = "rejected", !.tree = doc.input,
                !.log = Append(@, Event("throw", doc.groupIndex, Len(doc.nodesToProcess)))]

\* An awaited promise has rejected: nothing catches the failure, it leaves
\* the transformer call, which rejects with it.
Throw(doc) ==
    [doc EXCEPT !.pc = "rejected",
                !.log = Append(@, Event("throw", doc.groupIndex, Len(doc.nodesToProcess)))]

\* A mutated asset set that all transformer calls share.
AddedStylesShared(d) == UNION { docs[e].addedStyles : e \in 1..Len(docs) }

\* const addedStyles = new Set<string>(), made by each transformer call.
AddedStyles(d) == docs[d].addedStyles

\* const addedJsModules = new Set<string>(), made by each transformer call.
AddedJsModules(d) == docs[d].addedJsModules

\* A mutated transformer without the return for an empty nodesToProcess.
TransformerNoEarlyReturn(tree, outcome, renderer) ==
    LET nodesToProcess == VisitCode(RootId, tree)
        d == Len(docs) + 1
        invokes == asyncRenderer = 0
        returned == invokes /\ outcome # "throw"
    IN  /\ Len(docs) < MaxDocs
        /\ outcome \in FactoryOutcomes(options)
        /\ factoryCalls' =
               IF invokes THEN Append(factoryCalls, [doc |-> d, outcome |-> outcome])
               ELSE factoryCalls
        /\ rendererPromises' =
               IF returned
               THEN Append(rendererPromises,
                        IF outcome = "renderer"
                        THEN [state |-> "fulfilled", value |-> renderer]
                        ELSE [state |-> "pending", value |-> NoRenderer])
               ELSE rendererPromises
        /\ asyncRenderer' =
               IF returned THEN Len(rendererPromises) + 1 ELSE asyncRenderer
        /\ docs' = Append(docs,
               Document(tree, nodesToProcess, asyncRenderer',
                        IF invokes /\ outcome = "throw" THEN "rejected" ELSE "awaitRenderer"))
        /\ UNCHANGED <<cacheVars, memoVars, themeVars, languageVars, normalizeVars, options>>

\* A mutated transformer that invokes the renderer factory for every document
\* with code nodes, whether asyncRenderer is set or not.
TransformerAlwaysCreates(tree, outcome, renderer) ==
    LET nodesToProcess == VisitCode(RootId, tree)
        d == Len(docs) + 1
        invokes == Len(nodesToProcess) # 0
        returned == invokes /\ outcome # "throw"
    IN  /\ Len(docs) < MaxDocs
        /\ outcome \in FactoryOutcomes(options)
        /\ factoryCalls' =
               IF invokes THEN Append(factoryCalls, [doc |-> d, outcome |-> outcome])
               ELSE factoryCalls
        /\ rendererPromises' =
               IF returned
               THEN Append(rendererPromises,
                        IF outcome = "renderer"
                        THEN [state |-> "fulfilled", value |-> renderer]
                        ELSE [state |-> "pending", value |-> NoRenderer])
               ELSE rendererPromises
        /\ asyncRenderer' =
               IF returned THEN Len(rendererPromises) + 1 ELSE asyncRenderer
        /\ docs' = Append(docs,
               Document(tree, nodesToProcess,
                        IF Len(nodesToProcess) = 0 THEN 0 ELSE asyncRenderer',
                        IF Len(nodesToProcess) = 0 THEN "done"
                        ELSE IF invokes /\ outcome = "throw" THEN "rejected"
                        ELSE "awaitRenderer"))
        /\ UNCHANGED <<cacheVars, memoVars, themeVars, languageVars, normalizeVars, options>>

\* transformer(tree, file) up to its first await: the code nodes are
\* collected; without any the call returns; else the renderer factory is
\* invoked unless asyncRenderer is set, and the call awaits asyncRenderer. A
\* factory that throws leaves asyncRenderer unset and rejects the call; one
\* that returns a renderer (not a promise) returns `renderer`.
Transformer(tree, outcome, renderer) ==
    LET nodesToProcess == VisitCode(RootId, tree)
        d == Len(docs) + 1
        invokes == Len(nodesToProcess) # 0 /\ asyncRenderer = 0
        returned == invokes /\ outcome # "throw"
    IN  /\ Len(docs) < MaxDocs
        /\ outcome \in FactoryOutcomes(options)
        /\ factoryCalls' =
               IF invokes THEN Append(factoryCalls, [doc |-> d, outcome |-> outcome])
               ELSE factoryCalls
        /\ rendererPromises' =
               IF returned
               THEN Append(rendererPromises,
                        IF outcome = "renderer"
                        THEN [state |-> "fulfilled", value |-> renderer]
                        ELSE [state |-> "pending", value |-> NoRenderer])
               ELSE rendererPromises
        /\ asyncRenderer' =
               IF returned THEN Len(rendererPromises) + 1 ELSE asyncRenderer
        /\ docs' = Append(docs,
               Document(tree, nodesToProcess,
                        IF Len(nodesToProcess) = 0 THEN 0 ELSE asyncRenderer',
                        IF Len(nodesToProcess) = 0 THEN "done"
                        ELSE IF invokes /\ outcome = "throw" THEN "rejected"
                        ELSE "awaitRenderer"))
        /\ UNCHANGED <<cacheVars, memoVars, themeVars, languageVars, normalizeVars, options>>

\* The promise the renderer factory returned settles: it fulfils with a
\* renderer or rejects.
RendererSettle(r, ok, renderer) ==
    /\ r \in 1..Len(rendererPromises)
    /\ rendererPromises[r].state = "pending"
    /\ rendererPromises' =
           [rendererPromises EXCEPT ![r] =
               IF ok THEN [state |-> "fulfilled", value |-> renderer]
               ELSE [state |-> "rejected", value |-> NoRenderer]]
    /\ UNCHANGED <<cacheVars, memoVars, themeVars, languageVars, normalizeVars, options,
                   asyncRenderer, factoryCalls, docs>>

\* The transformer resumes after `await asyncRenderer`: it rejects with the
\* renderer's failure, or creates its asset sets and runs the loop body of
\* the first block up to that body's first await (the loop ends at once
\* when there is no block).
TransformerResume(d) ==
    /\ d \in 1..Len(docs)
    /\ docs[d].pc = "awaitRenderer"
    /\ rendererPromises[docs[d].renderer].state # "pending"
    /\ docs' = [docs EXCEPT ![d] =
           IF rendererPromises[docs[d].renderer].state = "rejected" THEN Throw(docs[d])
           ELSE IF Len(docs[d].nodesToProcess) = 0 THEN [docs[d] EXCEPT !.pc = "done"]
           ELSE Await(docs[d], FirstAwaitOfBlock)]
    /\ UNCHANGED <<cacheVars, memoVars, themeVars, languageVars, normalizeVars, options,
                   asyncRenderer, rendererPromises, factoryCalls>>

\* getBlockLocale settles: the locale is stored in the input and the block is
\* created, or the transformer rejects.
BlockLocaleSettle(d, ok) ==
    /\ d \in 1..Len(docs)
    /\ docs[d].pc = "getBlockLocale"
    /\ docs' = [docs EXCEPT ![d] =
           IF ~ok THEN Throw(docs[d])
           ELSE Await(docs[d],
                      IF options.customCreateBlock THEN "customCreateBlock" ELSE "render")]
    /\ UNCHANGED <<cacheVars, memoVars, themeVars, languageVars, normalizeVars, options,
                   asyncRenderer, rendererPromises, factoryCalls>>

\* customCreateBlock settles: the block is handed to renderBlockToHtml, which
\* awaits ec.render, or the transformer rejects.
CustomCreateBlockSettle(d, ok) ==
    /\ d \in 1..Len(docs)
    /\ docs[d].pc = "customCreateBlock"
    /\ docs' = [docs EXCEPT ![d] = IF ok THEN Await(docs[d], "render") ELSE Throw(docs[d])]
    /\ UNCHANGED <<cacheVars, memoVars, themeVars, languageVars, normalizeVars, options,
                   asyncRenderer, rendererPromises, factoryCalls>>

\* ec.render settles: the transformer rejects, or renderBlockToHtml makes the
\* block's html with the assets not yet added, the html replaces the code
\* node in its parent, and the loop goes on to the next block, up to its
\* first await, or ends.
RenderSettle(d, ok) ==
    LET doc == docs[d]
        entry == doc.nodesToProcess[doc.groupIndex + 1]
        last == doc.groupIndex + 1 = Len(doc.nodesToProcess)
        rendered == RenderBlockToHtml(rendererPromises[doc.renderer].value, entry.code,
                                      AddedStyles(d), AddedJsModules(d))
        spliced == [doc EXCEPT
                       !.tree = ReplaceCode(doc.tree, RootId, entry.parent, entry.code),
                       !.html = Append(@, rendered.html),
                       !.addedStyles = rendered.addedStyles,
                       !.addedJsModules = rendered.addedJsModules,
                       !.log = Append(@, Event("splice", doc.groupIndex,
                                               Len(doc.nodesToProcess))),
                       !.groupIndex = doc.groupIndex + 1]
    IN  /\ d \in 1..Len(docs)
        /\ doc.pc = "render"
        /\ docs' = [docs EXCEPT ![d] =
               IF ~ok THEN Throw(doc)
               ELSE IF last THEN [spliced EXCEPT !.pc = "done"]
               ELSE Await(spliced, FirstAwaitOfBlock)]
        /\ UNCHANGED <<cacheVars, memoVars, themeVars, languageVars, normalizeVars, options,
                       asyncRenderer, rendererPromises, factoryCalls>>

(***************************************************************************)
(* Specifications.                                                         *)
(***************************************************************************)
\* The state after the module is loaded and a transform is created.
Init ==
    /\ highlighterPromiseByConfig = [f \in Fingerprints |-> 0]
    /\ highlighterPromises = <<>>
    /\ highlighterCalls = <<>>
    /\ promisesByHighlighter = {}
    /\ taskPromises = <<>>
    /\ themes \in [ThemeObjs -> ThemeValues]
    /\ themeEdits = 0
    /\ themeCacheKeys = [t \in ThemeObjs |-> NoKey]
    /\ loadedThemes = [i \in Instances |-> {}]
    /\ loadThemeCalls = <<>>
    /\ themeCalls = <<>>
    /\ loadedLanguages = [i \in Instances |-> {}]
    /\ loadLanguageCalls = <<>>
    /\ languageCalls = <<>>
    /\ InitTransform

\* The state once getCachedHighlighter has been called with a configuration
\* without custom languages and with one that has a custom language, and both
\* constructions have completed.
InitConstructed ==
    /\ highlighterPromiseByConfig =
           [f \in Fingerprints |->
               IF f = ConfigHash([id |-> 1, langs |-> <<>>]) THEN 1 ELSE 2]
    /\ highlighterPromises =
           << [state |-> "fulfilled", fingerprint |-> ConfigHash([id |-> 1, langs |-> <<>>]),
               langs |-> {}],
              [state |-> "fulfilled",
               fingerprint |-> ConfigHash([id |-> 3, langs |-> <<"custom">>]),
               langs |-> {"custom"} \cup BundledLanguages] >>
    /\ highlighterCalls =
           << [config |-> [id |-> 1, langs |-> <<>>], promise |-> 1],
              [config |-> [id |-> 3, langs |-> <<"custom">>], promise |-> 2] >>
    /\ promisesByHighlighter = {}
    /\ taskPromises = <<>>
    /\ themes \in [ThemeObjs -> ThemeValues]
    /\ themeEdits = 0
    /\ themeCacheKeys = [t \in ThemeObjs |-> NoKey]
    /\ loadedThemes = [i \in Instances |-> {}]
    /\ loadThemeCalls = <<>>
    /\ themeCalls = <<>>
    /\ loadedLanguages =
           [i \in Instances |-> IF i = 2 THEN {"custom"} \cup BundledLanguages ELSE {}]
    /\ loadLanguageCalls = <<>>
    /\ languageCalls = <<>>
    /\ InitTransform

NextCache ==
    \/ \E config \in Configs : GetCachedHighlighter(config)
    \/ \E p \in Instances, ok \in BOOLEAN : GetHighlighterSettle(p, ok)

NextTheme ==
    \/ \E h \in Instances, t \in ThemeObjs : EnsureThemeIsLoaded(h, t)
    \/ \E c \in 1..MaxThemeCalls, ok \in BOOLEAN : LoadThemeSettle(c, ok)
    \/ \E t \in ThemeObjs, bg \in BgColors : EditTheme(t, bg)

NextLanguage ==
    \/ \E h \in Instances, language \in LanguageNames : EnsureLanguageIsLoaded(h, language)
    \/ \E p \in 1..MaxLanguageCalls : LanguageTaskImported(p)
    \/ \E c \in 1..MaxLanguageCalls, ok \in BOOLEAN : LoadLanguageSettle(c, ok)

NextTransform ==
    \/ \E tree \in Trees, outcome \in {"promise", "renderer", "throw"},
            renderer \in RendererResults :
           Transformer(tree, outcome, renderer)
    \/ \E r \in 1..MaxDocs, ok \in BOOLEAN, renderer \in RendererResults :
           RendererSettle(r, ok, renderer)
    \/ \E d \in 1..MaxDocs : TransformerResume(d)
    \/ \E d \in 1..MaxDocs, ok \in BOOLEAN : BlockLocaleSettle(d, ok)
    \/ \E d \in 1..MaxDocs, ok \in BOOLEAN : CustomCreateBlockSettle(d, ok)
    \/ \E d \in 1..MaxDocs, ok \in BOOLEAN : RenderSettle(d, ok)

\* The three functions of highlighter.ts together, called MaxCalls times in
\* all.
CallBudget == Len(highlighterCalls) + Len(themeCalls) + Len(languageCalls) < MaxCalls

NextHighlighter ==
    \/ CallBudget /\ \E config \in Configs : GetCachedHighlighter(config)
    \/ \E p \in Instances, ok \in BOOLEAN : GetHighlighterSettle(p, ok)
    \/ CallBudget /\ \E h \in Instances, t \in ThemeObjs : EnsureThemeIsLoaded(h, t)
    \/ \E c \in 1..MaxThemeCalls, ok \in BOOLEAN : LoadThemeSettle(c, ok)
    \/ CallBudget /\ \E h \in Instances, language \in LanguageNames :
           EnsureLanguageIsLoaded(h, language)
    \/ \E p \in 1..MaxLanguageCalls : LanguageTaskImported(p)
    \/ \E c \in 1..MaxLanguageCalls, ok \in BOOLEAN : LoadLanguageSettle(c, ok)

NextNormalize == NormalizeCode

Next == NextCache \/ NextTheme \/ NextLanguage \/ NextTransform \/ NextNormalize

\* The initial states of the specifications of the parts: the inputs of the
\* other parts are fixed.
FixedThemes == themes = [t \in ThemeObjs |-> DefaultTheme]
NoCode == codeValue = <<>>
InitCache == Init /\ options = NoHooks /\ NoCode
InitTheme == InitConstructed /\ options = NoHooks /\ NoCode
InitLanguage == InitConstructed /\ options = NoHooks /\ FixedThemes /\ NoCode
InitDocuments == Init /\ FixedThemes /\ options.tabWidth = <<>> /\ NoCode
InitHighlighter == Init /\ options = NoHooks /\ FixedThemes /\ NoCode
InitNormalize ==
    /\ Init
    /\ FixedThemes
    /\ ~options.getBlockLocale /\ ~options.customCreateBlock /\ ~options.customCreateRenderer

Spec == Init /\ [][Next]_vars
SpecCache == InitCache /\ [][NextCache]_vars
SpecTheme == InitTheme /\ [][NextTheme]_vars
SpecLanguage == InitLanguage /\ [][NextLanguage]_vars
SpecTransform == InitDocuments /\ [][NextTransform]_vars
SpecHighlighter == InitHighlighter /\ [][NextHighlighter]_vars
SpecNormalize == InitNormalize /\ [][NextNormalize]_vars

(***************************************************************************)
(* Properties of the Engine Instance Cache.                                *)
(***************************************************************************)
\* The constructions (getHighlighter invocations) made for a fingerprint.
Constructions(fingerprint) ==
    { p \in 1..Len(highlighterPromises) : highlighterPromises[p].fingerprint = fingerprint }

\* C1: for every fingerprint that getCachedHighlighter was called with, in any
\* number of calls and any interleaving with the constructions' completion,
\* getHighlighter was invoked exactly once, every call with that fingerprint
\* got the promise of that one construction (so the same instance), and the
\* promise is stored under the fingerprint from the call that created it on,
\* while it is still pending.
C1_OneConstructionPerFingerprint ==
    /\ \A c \in 1..Len(highlighterCalls) :
           LET fingerprint == ConfigHash(highlighterCalls[c].config)
           IN  /\ Constructions(fingerprint) = {highlighterCalls[c].promise}
               /\ highlighterPromiseByConfig[fingerprint] = highlighterCalls[c].promise
    /\ \A p \in 1..Len(highlighterPromises) :
           highlighterPromiseByConfig[highlighterPromises[p].fingerprint] = p

\* Three calls with one fingerprint, made with two distinct configuration
\* objects, whose shared construction has completed.
C1_Witness ==
    /\ Len(highlighterCalls) = 3
    /\ \A c \in 1..3 : highlighterCalls[c].promise = 1
    /\ { highlighterCalls[c].config.id : c \in 1..3 } = {1, 2}
    /\ highlighterPromises[1].state = "fulfilled"

(***************************************************************************)
(* Properties of the Per-Instance Task Memoizer and the Language Loader.   *)
(***************************************************************************)
LanguageCallSet == { languageCalls[c] : c \in 1..Len(languageCalls) }
ThemeCallSet == { themeCalls[c] : c \in 1..Len(themeCalls) }

\* The taskFn invocations made for (highlighter, taskId).
TaskFnInvocations(highlighter, taskId) ==
    { p \in 1..Len(taskPromises) :
        taskPromises[p].highlighter = highlighter /\ taskPromises[p].taskId = taskId }

\* C2: for every (instance, taskId) that memoizeHighlighterTask was called
\* with, taskFn was invoked exactly once and every caller holds the promise of
\* that one invocation, so all of them observe the same result or the same
\* failure; callers on different instances hold different promises, each of
\* a task function run for its own instance.
C2_TaskFnOncePerInstanceAndTask ==
    /\ \A call \in LanguageCallSet :
           TaskFnInvocations(call.highlighter, "loadLanguage:" \o call.language)
               = {call.promise}
    /\ \A c, d \in LanguageCallSet :
           c.highlighter # d.highlighter => c.promise # d.promise

\* Two callers joined one task on an instance and a third ran the task of
\* the same id on the other instance; both tasks have settled.
C2_Witness ==
    \E c, d \in 1..Len(languageCalls) :
        /\ c # d
        /\ languageCalls[c].highlighter = languageCalls[d].highlighter
        /\ languageCalls[c].language = languageCalls[d].language
        /\ LanguageCallState(languageCalls[c]) = "returned"
        /\ \E e \in 1..Len(languageCalls) :
               /\ languageCalls[e].highlighter # languageCalls[c].highlighter
               /\ languageCalls[e].language = languageCalls[c].language
               /\ LanguageCallState(languageCalls[e]) = "returned"

\* The loadLanguage invocations on an instance that were handed a language.
LoadsOf(highlighter, language) ==
    { c \in 1..Len(loadLanguageCalls) :
        loadLanguageCalls[c].highlighter = highlighter
            /\ language \in loadLanguageCalls[c].langs }

\* C3: on every instance, each language grammar is handed to the engine's
\* loadLanguage at most once, whatever names were requested and however the
\* calls interleave.
C3_EachGrammarLoadedAtMostOnce ==
    \A h \in Instances, language \in BundledLanguages :
        Cardinality(LoadsOf(h, language)) <= 1

\* A requested name is unavailable to a task when the instance did not report
\* it as loaded as the task started and it is neither special nor bundled.
Unavailable(task) ==
    /\ task.language \notin task.loadedLanguages
    /\ ~IsSpecialLang(task.language)
    /\ task.language \notin BundledLanguages

\* C7: every ensureLanguageIsLoaded call for an unavailable name returns
\* "txt" and never rejects, the first such call and every later one; its task
\* made no loadLanguage call, and no loadLanguage call was handed that name,
\* so the name is not among the instance's loaded languages either.
C7_UnavailableResolvesToTxt ==
    \A call \in LanguageCallSet :
        Unavailable(taskPromises[call.promise]) =>
            /\ LanguageCallState(call) = "returned"
            /\ LoadedLanguage(call) = "txt"
            /\ \A c \in 1..Len(loadLanguageCalls) :
                   /\ loadLanguageCalls[c].promise # call.promise
                   /\ loadLanguageCalls[c].highlighter = call.highlighter
                          => call.language \notin loadLanguageCalls[c].langs
            /\ call.language \notin loadedLanguages[call.highlighter]

\* Two calls for the same unavailable name on one instance have returned.
C7_Witness ==
    \E c, d \in 1..Len(languageCalls) :
        /\ c < d
        /\ languageCalls[c].highlighter = languageCalls[d].highlighter
        /\ languageCalls[c].language = languageCalls[d].language
        /\ Unavailable(taskPromises[languageCalls[c].promise])
        /\ LoadedLanguage(languageCalls[d]) = "txt"

\* C8: when a call for a composite language has returned, the language and
\* every language it lazily embeds are loaded in the instance; when a call
\* for another available language has returned that language's name, the
\* language is loaded or special; and no task has fulfilled before every
\* language of its loadLanguage call was loaded.
C8_ResolvedMeansLoaded ==
    /\ \A call \in LanguageCallSet :
           (LanguageCallState(call) = "returned" /\ ~Unavailable(taskPromises[call.promise]))
               => /\ LoadedLanguage(call) = call.language
                  /\ IF IsComposite(call.language)
                     THEN ({call.language} \cup EmbeddedLangsLazy(call.language))
                              \subseteq loadedLanguages[call.highlighter]
                     ELSE \/ call.language \in loadedLanguages[call.highlighter]
                          \/ IsSpecialLang(call.language)
    /\ \A c \in 1..Len(loadLanguageCalls) :
           taskPromises[loadLanguageCalls[c].promise].state = "fulfilled" =>
               loadLanguageCalls[c].langs
                   \subseteq loadedLanguages[loadLanguageCalls[c].highlighter]

\* A call for a composite language has returned on the instance that had no
\* language loaded, after the engine loaded it together with what it embeds.
C8_Witness ==
    \E call \in LanguageCallSet :
        /\ IsComposite(call.language)
        /\ call.highlighter = 1
        /\ LanguageCallState(call) = "returned"
        /\ \E c \in 1..Len(loadLanguageCalls) :
               /\ loadLanguageCalls[c].promise = call.promise
               /\ loadLanguageCalls[c].langs =
                      {call.language} \cup EmbeddedLangsLazy(call.language)

(***************************************************************************)
(* Properties of the Theme Loader.                                         *)
(***************************************************************************)
\* The loadTheme invocations on an instance under a name.
ThemeLoadsOf(highlighter, cacheKey) ==
    { c \in 1..Len(loadThemeCalls) :
        loadThemeCalls[c].highlighter = highlighter
            /\ loadThemeCalls[c].theme.name = cacheKey }

\* C4: all ensureThemeIsLoaded calls on one instance whose themes had the
\* same name and the same content (bg, fg, settings) when they were called,
\* the same object or not, got the same cache key, and loadTheme was invoked
\* exactly once for that key on the instance.
C4_SameContentSameKeyOneLoad ==
    \A c, d \in ThemeCallSet :
        (c.highlighter = d.highlighter /\ c.theme = d.theme) =>
            /\ c.cacheKey = d.cacheKey
            /\ Cardinality(ThemeLoadsOf(c.highlighter, c.cacheKey)) = 1

\* C5: two ensureThemeIsLoaded calls on one instance with distinct theme
\* objects that share their name and differ in background color got different
\* cache keys, and loadTheme was invoked exactly once for each of the keys.
C5_DifferentBgDifferentKey ==
    \A c, d \in ThemeCallSet :
        (/\ c.highlighter = d.highlighter
         /\ c.object # d.object
         /\ c.theme.name = d.theme.name
         /\ c.theme.bg # d.theme.bg) =>
            /\ c.cacheKey # d.cacheKey
            /\ Cardinality(ThemeLoadsOf(c.highlighter, c.cacheKey)) = 1
            /\ Cardinality(ThemeLoadsOf(d.highlighter, d.cacheKey)) = 1

\* C6: the cache key of every ensureThemeIsLoaded call is the key of the
\* content the theme had when the call was made, and every theme handed to
\* loadTheme carries the key of its own content as its name.
C6_KeyDerivedFromCurrentContent ==
    /\ \A call \in ThemeCallSet : call.cacheKey = ThemeCacheKey(call.theme)
    /\ \A c \in 1..Len(loadThemeCalls) :
           \E name \in ThemeNames :
               loadThemeCalls[c].theme.name =
                   ThemeCacheKey([loadThemeCalls[c].theme EXCEPT !.name = name])

(***************************************************************************)
(* Properties of the Document Rendering Pipeline.                          *)
(***************************************************************************)
\* The identities of the code nodes anywhere in a child list.
RECURSIVE CodeNodeIds(_)
CodeNodeIds(children) ==
    IF children = <<>> THEN {}
    ELSE (IF Head(children).type = "code" THEN {Head(children).id} ELSE {})
         \cup CodeNodeIds(Head(children).children)
         \cup CodeNodeIds(Tail(children))

HasCode(d) == CodeNodeIds(docs[d].input) # {}

\* C9: the transform of every document without a code node has completed as
\* soon as it was called, with the tree as it was given, without a renderer
\* to await, and no invocation of the renderer factory was made for it,
\* whichever documents were processed before it or are in flight.
C9_NoCodeNoRenderer ==
    \A d \in 1..Len(docs) :
        ~HasCode(d) =>
            /\ docs[d].pc = "done"
            /\ docs[d].tree = docs[d].input
            /\ docs[d].renderer = 0
            /\ \A c \in 1..Len(factoryCalls) : factoryCalls[c].doc # d

\* A document without code nodes was the first one processed, and the
\* transform has not invoked the renderer factory; a later document with
\* code nodes is in flight.
C9_Witness ==
    /\ Len(docs) = 2
    /\ ~HasCode(1)
    /\ HasCode(2)
    /\ docs[2].pc = "render"
    /\ factoryCalls = << [doc |-> 2, outcome |-> "promise"] >>

\* C10 as claimed: once a document with code nodes has been processed, the
\* renderer factory has been invoked exactly once, and every document with
\* code nodes that is rendering or has rendered holds the result of that one
\* invocation.
C10_FactoryInvokedExactlyOnce ==
    (\E d \in 1..Len(docs) : HasCode(d)) =>
        /\ Len(factoryCalls) = 1
        /\ \A d \in 1..Len(docs) :
               (HasCode(d) /\ docs[d].pc # "rejected") => docs[d].renderer = 1

\* C10 as amended: at most one invocation of the renderer factory ever
\* returns; what it returned is stored in asyncRenderer at once, every
\* invocation made before it threw, none is made after it, and every document
\* with code nodes either holds that one result or is the rejected document
\* whose own invocation of the factory threw.
C10_FactoryReturnsAtMostOnce ==
    /\ Len(rendererPromises) <= 1
    /\ asyncRenderer = Len(rendererPromises)
    /\ \A c \in 1..Len(factoryCalls) :
           IF c < Len(factoryCalls) \/ asyncRenderer = 0
           THEN factoryCalls[c].outcome = "throw"
           ELSE factoryCalls[c].outcome # "throw"
    /\ \A d \in 1..Len(docs) :
           HasCode(d) =>
               \/ docs[d].renderer = 1 /\ asyncRenderer = 1
               \/ /\ docs[d].renderer = 0
                  /\ docs[d].pc = "rejected"
                  /\ \E c \in 1..Len(factoryCalls) :
                         factoryCalls[c] = [doc |-> d, outcome |-> "throw"]

\* Two documents with code nodes were in flight together: the second joined
\* the construction the first had started while it was pending, and both
\* were rendered to the end with its result.
C10_Witness ==
    /\ Len(docs) = 2
    /\ HasCode(1) /\ HasCode(2)
    /\ Len(factoryCalls) = 1
    /\ factoryCalls[1].outcome = "promise"
    /\ docs[1].pc = "done" /\ docs[2].pc = "done"
    /\ docs[1].renderer = 1 /\ docs[2].renderer = 1

(***************************************************************************)
(* Properties of the Theme Loader's result.                                *)
(***************************************************************************)
\* C19: whenever an ensureThemeIsLoaded call has resolved with key k (on the
\* fast path, as the caller that started the load, or as a caller that joined
\* it), k is among the names the instance reports as loaded; and every theme
\* handed to the engine and every theme the engine has registered carries a
\* cache key as its name, never a display name.
C19_ResolvedKeyIsLoaded ==
    /\ \A c \in 1..Len(themeCalls) :
           ThemeCallState(themeCalls[c]) = "returned"
               => themeCalls[c].cacheKey \in GetLoadedThemes(themeCalls[c].highlighter)
    /\ \A l \in 1..Len(loadThemeCalls) :
           /\ taskPromises[loadThemeCalls[l].promise].taskId
                  = "loadTheme:" \o loadThemeCalls[l].theme.name
           /\ loadThemeCalls[l].theme.name \notin ThemeNames
    /\ \A h \in Instances : GetLoadedThemes(h) \cap ThemeNames = {}

\* One load has fulfilled and three calls for its key have resolved: the one
\* that started the load, one that joined it while it was pending, and one
\* that found the theme loaded.
C19_Witness ==
    \E a, b, c \in 1..Len(themeCalls) :
        /\ a < b /\ b < c
        /\ themeCalls[a].highlighter = themeCalls[b].highlighter
        /\ themeCalls[b].highlighter = themeCalls[c].highlighter
        /\ themeCalls[a].cacheKey = themeCalls[b].cacheKey
        /\ themeCalls[b].cacheKey = themeCalls[c].cacheKey
        /\ themeCalls[a].promise # 0
        /\ themeCalls[b].promise = themeCalls[a].promise
        /\ themeCalls[c].promise = 0
        /\ ThemeCallState(themeCalls[a]) = "returned"

(***************************************************************************)
(* Properties of the caches of highlighter.ts under failure and over time. *)
(***************************************************************************)
\* C17: a failed engine construction stays in the Engine Instance Cache:
\* its rejected promise is the one stored under its fingerprint, it is the
\* only construction ever started for that fingerprint, and every
\* getCachedHighlighter call with that fingerprint, before or after the
\* failure, holds that same rejected promise. Likewise a failed theme or
\* language task stays in the memoizer of its instance: its rejected promise
\* is the one stored under its task id, the task function was run once, and
\* every ensureLanguageIsLoaded or ensureThemeIsLoaded call for that task
\* holds that same rejected promise.
C17_FailureIsCachedForGood ==
    /\ \A p \in 1..Len(highlighterPromises) :
           highlighterPromises[p].state = "rejected" =>
               /\ highlighterPromiseByConfig[highlighterPromises[p].fingerprint] = p
               /\ Constructions(highlighterPromises[p].fingerprint) = {p}
               /\ \A c \in 1..Len(highlighterCalls) :
                      ConfigHash(highlighterCalls[c].config) = highlighterPromises[p].fingerprint
                          => highlighterCalls[c].promise = p
    /\ \A p \in 1..Len(taskPromises) :
           taskPromises[p].state = "rejected" =>
               /\ StoredPromise(taskPromises[p].highlighter, taskPromises[p].taskId) = p
               /\ TaskFnInvocations(taskPromises[p].highlighter, taskPromises[p].taskId) = {p}
               /\ \A call \in LanguageCallSet :
                      /\ call.highlighter = taskPromises[p].highlighter
                      /\ "loadLanguage:" \o call.language = taskPromises[p].taskId
                      => call.promise = p
               /\ \A call \in ThemeCallSet :
                      /\ call.highlighter = taskPromises[p].highlighter
                      /\ "loadTheme:" \o call.cacheKey = taskPromises[p].taskId
                      => call.promise = p

\* A construction has failed and two getCachedHighlighter calls with its
\* fingerprint hold its promise; on an instance that was constructed, a task
\* has failed and its promise is the one recorded.
C17_Witness ==
    /\ \E c, d \in 1..Len(highlighterCalls) :
           /\ c # d
           /\ highlighterCalls[c].promise = highlighterCalls[d].promise
           /\ highlighterPromises[highlighterCalls[c].promise].state = "rejected"
    /\ \E p \in 1..Len(taskPromises) :
           /\ taskPromises[p].state = "rejected"
           /\ StoredPromise(taskPromises[p].highlighter, taskPromises[p].taskId) = p

\* C18: in every step, the Engine Instance Cache and the task maps only grow:
\* a fingerprint that has a promise keeps that very promise, every recorded
\* (instance, task id, promise) entry stays recorded, and no task id of an
\* instance ever has two promises.
C18_CachesOnlyGrow ==
    [][ /\ \A f \in Fingerprints :
               highlighterPromiseByConfig[f] # 0
                   => highlighterPromiseByConfig'[f] = highlighterPromiseByConfig[f]
        /\ promisesByHighlighter \subseteq promisesByHighlighter'
        /\ \A e, g \in promisesByHighlighter' :
               (e.highlighter = g.highlighter /\ e.taskId = g.taskId) => e = g
      ]_vars

\* Both caches hold entries that calls have found again after they had
\* settled: a fulfilled construction that two calls hold, and a settled task
\* on its instance that two calls hold.
C18_Witness ==
    /\ \E c, d \in 1..Len(highlighterCalls) :
           /\ c # d
           /\ highlighterCalls[c].promise = highlighterCalls[d].promise
           /\ highlighterPromises[highlighterCalls[c].promise].state = "fulfilled"
    /\ \E c, d \in 1..Len(languageCalls) :
           /\ c # d
           /\ languageCalls[c].promise = languageCalls[d].promise
           /\ Settled(languageCalls[c].promise)

(***************************************************************************)
(* Properties of the html of the blocks and of the tree.                   *)
(***************************************************************************)
\* The renderer a document was rendered with.
RendererOf(d) == rendererPromises[docs[d].renderer].value

\* The shared assets of a renderer that have content.
SharedStyles(renderer) == {renderer.baseStyles, renderer.themeStyles} \ {""}
SharedModules(renderer) == SeqToSet(renderer.jsModules)

\* The strings in the elements of a tag in the html of one block.
TextsOf(html, tagName) ==
    UNION { SeqToSet(html.children[k].text) :
              k \in { j \in 1..Len(html.children) : html.children[j].tagName = tagName } }

\* The parts of the style element that the html of a block starts with,
\* <<>> when it starts with none.
StyleParts(html) ==
    IF html.children[1].tagName = "style" THEN html.children[1].text ELSE <<>>

\* C11: in the output of every document that has rendered a block, the html
\* of the first block is at most one style element, then one script element
\* per script module of the renderer, each module once, then the rendered
\* group; the html of a later block is at most one style element and the
\* rendered group, without any script; every shared style (base, theme) of
\* the renderer is a part of the first block's style element; and no style
\* string is a part twice, in one block or in two, so that the shared styles
\* occur exactly once, in the first block, and no group style occurs in two
\* blocks.
C11_SharedAssetsOnceInFirstBlock ==
    \A d \in 1..Len(docs) :
        docs[d].groupIndex >= 1 =>
            LET html == docs[d].html
                first == html[1].children
                modules == Cardinality(SharedModules(RendererOf(d)))
                scriptsFrom == IF first[1].tagName = "style" THEN 2 ELSE 1
            IN  /\ Len(first) = scriptsFrom + modules
                /\ \A k \in scriptsFrom..Len(first) :
                       first[k].tagName = IF k < Len(first) THEN "script" ELSE "figure"
                /\ { first[k].text : k \in scriptsFrom..(Len(first) - 1) }
                       = { <<m>> : m \in SharedModules(RendererOf(d)) }
                /\ SharedStyles(RendererOf(d)) \subseteq SeqToSet(StyleParts(html[1]))
                /\ \A i \in 2..Len(html) :
                       \A k \in 1..Len(html[i].children) :
                           html[i].children[k].tagName =
                               IF k < Len(html[i].children) THEN "style" ELSE "figure"
                /\ \A i \in 2..Len(html) : Len(html[i].children) <= 2
                /\ \A i, j \in 1..Len(html) :
                       \A a \in 1..Len(StyleParts(html[i])), b \in 1..Len(StyleParts(html[j])) :
                           (i = j /\ a = b) \/ StyleParts(html[i])[a] # StyleParts(html[j])[b]

\* A document of two blocks is done, rendered with base styles, theme styles
\* and script modules; its second block has a style element of its own.
C11_Witness ==
    \E d \in 1..Len(docs) :
        /\ docs[d].pc = "done"
        /\ Len(docs[d].html) = 2
        /\ RendererOf(d).baseStyles # ""
        /\ RendererOf(d).jsModules # <<>>
        /\ TextsOf(docs[d].html[2], "style") # {}

\* The tree with the code nodes of a set replaced by html nodes, each at the
\* place of its code node, and everything else as it is.
RECURSIVE WithHtmlFor(_, _)
WithHtmlFor(children, codes) ==
    [k \in 1..Len(children) |->
        IF children[k].type = "code" /\ children[k].id \in codes
        THEN Node(children[k].id, "html", <<>>)
        ELSE [children[k] EXCEPT !.children = WithHtmlFor(children[k].children, codes)]]

\* The code nodes of the first n collected pairs of a document.
Collected(d, n) == { docs[d].nodesToProcess[i].code : i \in 1..n }

\* C12: when the transform of a document has completed, its tree is the tree
\* that was handed in with every collected code node replaced, at its place
\* in its parent, by one html node, and nothing else changed; there is one
\* html value per code node, in the order of the code nodes.
C12_CodeNodesReplacedInPlace ==
    \A d \in 1..Len(docs) :
        docs[d].pc = "done" =>
            /\ docs[d].tree =
                   WithHtmlFor(docs[d].input, Collected(d, Len(docs[d].nodesToProcess)))
            /\ Len(docs[d].html) = Len(docs[d].nodesToProcess)
            /\ \A i \in 1..Len(docs[d].html) :
                   docs[d].html[i].code = docs[d].nodesToProcess[i].code

\* The transform of the document with two code nodes around a paragraph has
\* completed.
C12_Witness ==
    \E d \in 1..Len(docs) :
        /\ docs[d].pc = "done"
        /\ docs[d].input = TreeFlat
        /\ docs[d].tree # docs[d].input

\* The steps of the loop body for block i of K, and of the blocks from i on.
StepsOfBlock(i, K) ==
    (IF options.getBlockLocale THEN << Event("getBlockLocale", i, K) >> ELSE <<>>)
        \o << Event(IF options.customCreateBlock THEN "customCreateBlock"
                    ELSE "ExpressiveCodeBlock", i, K),
              Event("render", i, K),
              Event("splice", i, K) >>

RECURSIVE StepsOfBlocks(_, _)
StepsOfBlocks(i, K) ==
    IF i >= K THEN <<>> ELSE StepsOfBlock(i, K) \o StepsOfBlocks(i + 1, K)

\* The steps a document has logged, without the failure that ended them.
StepsLogged(d) ==
    IF docs[d].log # <<>> /\ docs[d].log[Len(docs[d].log)].op = "throw"
    THEN SubSeq(docs[d].log, 1, Len(docs[d].log) - 1)
    ELSE docs[d].log

\* C13: the steps every document has taken are, in this order, the steps of
\* block 0, then those of block 1, and so on, up to where the document
\* stands: for each block getBlockLocale (if given), then customCreateBlock
\* or the construction of the block, then render, then splice, each with the
\* block's groupIndex and with totalGroups the number of collected nodes;
\* a completed document has taken all of them, and the i-th html value is
\* that of the i-th collected node.
C13_BlocksInCollectionOrder ==
    \A d \in 1..Len(docs) :
        LET K == Len(docs[d].nodesToProcess)
            all == StepsOfBlocks(0, K)
            steps == StepsLogged(d)
        IN  /\ Len(steps) <= Len(all)
            /\ steps = SubSeq(all, 1, Len(steps))
            /\ docs[d].pc = "done" => steps = all
            /\ \A k \in 1..Len(steps) :
                   steps[k].op = "splice" =>
                       docs[d].html[steps[k].groupIndex + 1].code
                           = docs[d].nodesToProcess[steps[k].groupIndex + 1].code

\* A document of two blocks has completed with both hooks given.
C13_Witness ==
    /\ options.getBlockLocale
    /\ options.customCreateBlock
    /\ \E d \in 1..Len(docs) :
           /\ docs[d].pc = "done"
           /\ docs[d].groupIndex = 2
           /\ Len(docs[d].log) = 8

\* C14: every document that has rendered a block carries every shared style
\* and every script module of the renderer in the html of its own first
\* block; its asset sets hold exactly the strings of its own html; and two
\* documents made from equal trees with equal renderers have equal html as
\* far as both have got, however their steps interleave.
C14_AssetSetIsPerDocument ==
    /\ \A d \in 1..Len(docs) :
           /\ docs[d].groupIndex >= 1 =>
                  /\ SharedStyles(RendererOf(d)) \subseteq TextsOf(docs[d].html[1], "style")
                  /\ SharedModules(RendererOf(d)) \subseteq TextsOf(docs[d].html[1], "script")
           /\ docs[d].addedStyles =
                  UNION { TextsOf(docs[d].html[i], "style") : i \in 1..Len(docs[d].html) }
           /\ docs[d].addedJsModules =
                  UNION { TextsOf(docs[d].html[i], "script") : i \in 1..Len(docs[d].html) }
    /\ \A d, e \in 1..Len(docs) :
           (/\ docs[d].input = docs[e].input
            /\ docs[d].groupIndex >= 1 /\ docs[e].groupIndex >= 1
            /\ RendererOf(d) = RendererOf(e))
           => \A i \in 1..Len(docs[d].html) :
                  i <= Len(docs[e].html) => docs[d].html[i] = docs[e].html[i]

\* Two documents of two blocks each share a renderer with base styles and
\* modules; each has rendered its first block and awaits the render of its
\* second.
C14_Witness ==
    /\ Len(docs) >= 2
    /\ docs[1].renderer = docs[2].renderer
    /\ \A d \in 1..2 :
           /\ docs[d].pc = "render"
           /\ docs[d].groupIndex = 1
           /\ RendererOf(d).baseStyles # ""
           /\ RendererOf(d).jsModules # <<>>

\* The html nodes in a child list and below it.
RECURSIVE HtmlNodes(_)
HtmlNodes(children) ==
    IF children = <<>> THEN {}
    ELSE (IF Head(children).type = "html" THEN {Head(children).id} ELSE {})
             \cup HtmlNodes(Head(children).children)
             \cup HtmlNodes(Tail(children))

\* C15: a failure is the last step of its document and the document has
\* rejected (and a rejected document has a failure as its last step): no
\* step of a later block is logged, and the blocks rendered and replaced are
\* those before the block that failed. A document with code nodes whose
\* renderer promise has rejected has rendered and replaced nothing, and it
\* stands at its await of the renderer or has rejected.
C15_FailureEndsTheDocument ==
    \A d \in 1..Len(docs) :
        /\ \A k \in 1..Len(docs[d].log) :
               docs[d].log[k].op = "throw" =>
                   /\ k = Len(docs[d].log)
                   /\ docs[d].pc = "rejected"
                   /\ \A j \in 1..k : docs[d].log[j].groupIndex <= docs[d].log[k].groupIndex
                   /\ Len(docs[d].html) = docs[d].log[k].groupIndex
                   /\ HtmlNodes(docs[d].tree) = Collected(d, docs[d].log[k].groupIndex)
        /\ docs[d].pc = "rejected" =>
               /\ docs[d].log # <<>>
               /\ docs[d].log[Len(docs[d].log)].op = "throw"
        /\ (docs[d].renderer # 0 /\ rendererPromises[docs[d].renderer].state = "rejected") =>
               /\ docs[d].pc \in {"awaitRenderer", "rejected"}
               /\ docs[d].html = <<>>
               /\ HtmlNodes(docs[d].tree) = {}

\* One document of two blocks has rejected because the render of its first
\* block failed, and another because getBlockLocale failed for its second.
C15_Witness ==
    \E d, e \in 1..Len(docs) :
        /\ docs[d].pc = "rejected"
        /\ docs[d].groupIndex = 0
        /\ Len(docs[d].nodesToProcess) = 2
        /\ Len(docs[d].log) >= 2
        /\ docs[d].log[Len(docs[d].log) - 1].op = "render"
        /\ docs[e].pc = "rejected"
        /\ docs[e].groupIndex = 1
        /\ Len(docs[e].log) >= 2
        /\ docs[e].log[Len(docs[e].log) - 1].op = "getBlockLocale"

\* C20: a document that has rejected at block j has the tree that was
\* handed in with the code nodes of the blocks before j replaced by html
\* nodes, and the code nodes from block j on as they were, at their places;
\* there are j html values, and the first carries the shared styles and the
\* script modules of the renderer.
C20_FailureLeavesPartialTree ==
    \A d \in 1..Len(docs) :
        docs[d].pc = "rejected" =>
            /\ docs[d].tree = WithHtmlFor(docs[d].input, Collected(d, docs[d].groupIndex))
            /\ Len(docs[d].html) = docs[d].groupIndex
            /\ docs[d].groupIndex >= 1 =>
                   /\ docs[d].html[1].code = docs[d].nodesToProcess[1].code
                   /\ SharedStyles(RendererOf(d)) \cup {"g1{}"}
                          \subseteq TextsOf(docs[d].html[1], "style")
                   /\ SharedModules(RendererOf(d))
                          = TextsOf(docs[d].html[1], "script")

\* A document of two blocks, rendered with base styles and script modules,
\* has rejected because customCreateBlock failed for its second block.
C20_Witness ==
    \E d \in 1..Len(docs) :
        /\ docs[d].pc = "rejected"
        /\ docs[d].groupIndex = 1
        /\ Len(docs[d].nodesToProcess) = 2
        /\ Len(docs[d].log) >= 2
        /\ docs[d].log[Len(docs[d].log) - 1].op = "customCreateBlock"
        /\ RendererOf(d).baseStyles # ""
        /\ RendererOf(d).jsModules # <<>>
        /\ docs[d].tree # docs[d].input

(***************************************************************************)
(* Properties of the tab normalization.                                    *)
(***************************************************************************)
\* The number of tabs before place i of a code value.
TabsBefore(value, i) == Cardinality({ j \in 1..(i - 1) : value[j] = "\t" })

\* C16: with w the tabWidth given, or 2 when none is given: for w > 0 the
\* normalized code has w spaces where the value has a tab and the value's
\* character where it has another one, in the value's order and nothing
\* else; for w = 0 the normalized code is the value.
C16_TabsBecomeSpaces ==
    normalizedCode # <<>> =>
        LET out == normalizedCode[1]
            w == IF options.tabWidth = <<>> THEN 2 ELSE options.tabWidth[1]
        IN  IF w > 0
            THEN /\ Len(out) = Len(codeValue)
                                   + (w - 1) * TabsBefore(codeValue, Len(codeValue) + 1)
                 /\ \A i \in 1..Len(codeValue) :
                        LET at == i + (w - 1) * TabsBefore(codeValue, i)
                        IN  IF codeValue[i] = "\t"
                            THEN \A k \in 0..(w - 1) : out[at + k] = " "
                            ELSE out[at] = codeValue[i]
            ELSE out = codeValue

\* A value with two tabs around a letter was normalized with no tabWidth
\* given.
C16_Witness ==
    /\ options.tabWidth = <<>>
    /\ codeValue = <<"\t", "a", "\t">>
    /\ normalizedCode = << <<" ", " ", "a", " ", " ">> >>

====
